---- MODULE Spec2Model ----
(***************************************************************************)
(* Breakout-room client state synchroniser of veilo_gai:                   *)
(*   - the hook useFlagshipBreakoutSocket (event reducer with dedup        *)
(*     memory, connection management, room operations), and                *)
(*   - the service FlagshipBreakoutService (createBreakoutRoom with        *)
(*     acknowledgment wait and REST fallback chain).                       *)
(*                                                                         *)
(* Conventions.  An optional value (a field that may be undefined) is a    *)
(* sequence of length 0 or 1.  An absent identifier is the empty string,   *)
(* which the code treats like undefined (both are falsy).  Timestamps are  *)
(* ISO strings in the code and only ever compared for identity and copied; *)
(* they are numbered here (0 is the construction time).                    *)
(***************************************************************************)
EXTENDS Integers, Sequences, FiniteSets, TLC

VARIABLES
    \* ---- hook: RealtimeBreakoutState and refs
    rooms,             \* state.rooms: room id -> optional room
    participants,      \* state.participants: participant id -> optional participant
    currentRoom,       \* state.currentRoom ("" is null)
    lastUpdate,        \* state.lastUpdate
    connectionStatus,  \* state.connectionStatus
    eventHandlers,     \* eventHandlers.current: the dedup keys in insertion order
    metrics,           \* metrics: eventsReceived, eventsSent
    enableAnalytics,   \* options.enableAnalytics
    capturedStatus,    \* state.connectionStatus as captured by the memoised room operations
    pendingConnects,   \* number of connect() calls awaiting enhancedSocketService.connect()
    pendingReconnects, \* number of reconnect() calls in their 1 s pause
    \* ---- observation of the calls made
    log,               \* the calls made to processEvent / clearCache, in order
    last,              \* outcome of the latest hook operation: error raised, event emitted
    \* ---- replay harness (clearCache then replay of the same events)
    phase, snapshot, replayIdx,
    \* ---- service: one createBreakoutRoom call
    pc,                \* where the createBreakoutRoom call stands
    cfg,               \* roomConfig of the call
    socketConnected,   \* enhancedSocketService.connected
    tokenState,        \* what getCurrentAuthToken / isTokenValid find
    ackOutcome,        \* how the acknowledgment wait ended
    inbound,           \* the latest inbound socket event, numbered
    netLog,            \* socket emits and HTTP requests of the call, in order
    roomCache,         \* this.roomCache
    thrown,            \* the error on its way to the catch block
    restOutcome,       \* createRoomViaAPI: not called, running, returned, threw
    restResult,        \* what createRoomViaAPI returned or threw
    replies,           \* what the API service and the legacy endpoint answered
    pollAttempt,       \* attempt of pollForRoomByName
    result,            \* what createBreakoutRoom returned
    opResult,          \* what the latest other operation of the service returned
    listeners          \* the listeners registered on the transport for the create events

projVars == <<rooms, participants, currentRoom, lastUpdate>>
reducerVars == <<rooms, participants, currentRoom, lastUpdate, eventHandlers, metrics>>
connVars == <<connectionStatus, capturedStatus, pendingConnects, pendingReconnects, last>>
replayVars == <<phase, snapshot, replayIdx>>
hookVars == <<reducerVars, connVars, replayVars, enableAnalytics, log>>
svcVars == <<pc, cfg, socketConnected, tokenState, ackOutcome, inbound, netLog, roomCache,
             thrown, restOutcome, restResult, replies, pollAttempt, result, opResult, listeners>>
vars == <<rooms, participants, currentRoom, lastUpdate, connectionStatus, eventHandlers,
          metrics, enableAnalytics, capturedStatus, pendingConnects, pendingReconnects,
          log, last, phase, snapshot, replayIdx,
          pc, cfg, socketConnected, tokenState, ackOutcome, inbound, netLog, roomCache,
          thrown, restOutcome, restResult, replies, pollAttempt, result, opResult, listeners>>

----------------------------------------------------------------------------
(* Bounds of the model *)

\* calls to processEvent / clearCache in one run of the reducer specifications
MaxEvents == 3
\* deliveries after the start state in the dedup-cap specification
CapRun == 4
\* outbound requests counted by metrics.eventsSent in the connection specification
MaxSent == 2
\* connect() / reconnect() calls in flight at once
MaxPending == 1
\* inbound socket events delivered to the service during one call
MaxInbound == 2
\* events, clearCache calls and join rejections in one run of the room specification
MaxRoomEvents == 2

(* Program constants *)

DedupCap == 1000
EvictCount == 500
MinParticipants == 2
MaxParticipants == 20
PollAttempts == 6

----------------------------------------------------------------------------
(* Data *)

None == <<>>
Some(x) == <<x>>
IsSome(o) == Len(o) > 0
Get(o) == o[1]

Absent == ""
RoomIds == {"r1", "r2"}
ParticipantIds == {"p1", "p2"}

Max2(a, b) == IF a >= b THEN a ELSE b
Range(s) == {s[i] : i \in 1..Len(s)}

\* array.filter: the elements satisfying Keep, in order
RECURSIVE FilterOut(_, _)
FilterOut(s, x) ==
    IF s = <<>> THEN <<>>
    ELSE IF Head(s) = x THEN FilterOut(Tail(s), x)
         ELSE <<Head(s)>> \o FilterOut(Tail(s), x)

MkRoom(id, name, cur, max, roster, status) ==
    [id |-> id, name |-> name, currentParticipants |-> cur, maxParticipants |-> max,
     participants |-> roster, status |-> status]

MkParticipant(id, alias) == [id |-> id, alias |-> alias]

\* event.data with none of its properties set
NoData ==
    [present |-> TRUE, room |-> None, participant |-> None, participantCount |-> None,
     participants |-> None, assignments |-> None, status |-> None]

\* an event that has no data at all: event.data is undefined
NoPayload == [NoData EXCEPT !.present = FALSE]

MkEvent(type, roomId, participantId, data, ts) ==
    [type |-> type, roomId |-> roomId, participantId |-> participantId,
     data |-> data, timestamp |-> ts]

EmptyRooms == [r \in RoomIds |-> None]
EmptyParticipants == [p \in ParticipantIds |-> None]

----------------------------------------------------------------------------
(* processEvent: deduplication *)

\* eventKey = `${event.type}_${event.roomId || 'global'}_${event.timestamp}`
EventKey(e) ==
    <<e.type, IF e.roomId = Absent THEN "global" ELSE e.roomId, e.timestamp>>

\* eventHandlers.current.has(eventKey)
HasKey(handlers, key) == \E i \in 1..Len(handlers) : handlers[i] = key

\* eventHandlers.current.set(eventKey, ...) followed by the clean-up of old keys
NoEvictSetKey(handlers, key) == Append(handlers, key)
SetKey(handlers, key) ==
    LET added == Append(handlers, key) IN
    IF Len(added) > DedupCap
    THEN SubSeq(added, EvictCount + 1, Len(added))
    ELSE added

----------------------------------------------------------------------------
(* processEvent: the reducer (the setState updater) *)

Projection(rs, ps, cur, lu) ==
    [rooms |-> rs, participants |-> ps, currentRoom |-> cur, lastUpdate |-> lu]

NewerOnlyFoldRoomUpsert(p, e) ==
    IF IsSome(e.data.room) /\ e.timestamp >= p.lastUpdate
    THEN [p EXCEPT !.rooms[Get(e.data.room).id] = e.data.room]
    ELSE p
FoldRoomUpsert(p, e) ==
    IF IsSome(e.data.room)
    THEN [p EXCEPT !.rooms[Get(e.data.room).id] = e.data.room]
    ELSE p

\* a room_deleted fold that clears currentRoom whatever room is deleted
AlwaysClearFoldRoomDeleted(p, e) ==
    IF e.roomId # Absent
    THEN [p EXCEPT !.rooms[e.roomId] = None, !.currentRoom = Absent]
    ELSE p

FoldRoomDeleted(p, e) ==
    IF e.roomId # Absent
    THEN [p EXCEPT !.rooms[e.roomId] = None,
                   !.currentRoom = IF p.currentRoom = e.roomId THEN Absent
                                   ELSE p.currentRoom]
    ELSE p

\* event.data.participantCount || room.currentParticipants  (0 is falsy)
CountOr(supplied, held) ==
    IF IsSome(supplied) /\ Get(supplied) # 0 THEN Get(supplied) ELSE held

\* event.data.participants || room.participants  (an empty array is truthy)
RosterOr(supplied, held) == IF IsSome(supplied) THEN Get(supplied) ELSE held

FoldParticipantUpsert(p, e) ==
    IF IsSome(e.data.participant) /\ e.roomId # Absent
    THEN LET q == [p EXCEPT !.participants[Get(e.data.participant).id] = e.data.participant]
         IN IF IsSome(p.rooms[e.roomId])
            THEN LET room == Get(p.rooms[e.roomId]) IN
                 [q EXCEPT !.rooms[e.roomId] = Some(
                     [room EXCEPT
                        !.currentParticipants =
                            CountOr(e.data.participantCount, room.currentParticipants),
                        !.participants = RosterOr(e.data.participants, room.participants)])]
            ELSE q
    ELSE p

NoFloorDecrement(n) == n - 1
Decrement(n) == Max2(0, n - 1)

FoldParticipantLeft(p, e) ==
    IF e.participantId # Absent /\ e.roomId # Absent
    THEN LET q == [p EXCEPT !.participants[e.participantId] = None]
         IN IF IsSome(p.rooms[e.roomId])
            THEN LET room == Get(p.rooms[e.roomId]) IN
                 [q EXCEPT !.rooms[e.roomId] = Some(
                     [room EXCEPT
                        !.currentParticipants = Decrement(room.currentParticipants),
                        !.participants = FilterOut(room.participants, e.participantId)])]
            ELSE q
    ELSE p

RECURSIVE FoldAssignments(_, _)
FoldAssignments(p, as) ==
    IF as = <<>> THEN p
    ELSE LET a == Head(as)
             q == IF IsSome(p.rooms[a.roomId]) /\ IsSome(a.participant)
                  THEN [p EXCEPT !.participants[Get(a.participant).id] = a.participant]
                  ELSE p
         IN FoldAssignments(q, Tail(as))

FoldAutoAssignment(p, e) ==
    IF IsSome(e.data.assignments) THEN FoldAssignments(p, Get(e.data.assignments)) ELSE p

\* a status fold that creates the room entry when the room is not held
UpsertFoldStatusChanged(p, e) ==
    IF e.roomId # Absent /\ IsSome(e.data.status)
    THEN [p EXCEPT !.rooms[e.roomId] =
              IF IsSome(p.rooms[e.roomId])
              THEN Some([Get(p.rooms[e.roomId]) EXCEPT !.status = Get(e.data.status)])
              ELSE Some(MkRoom(e.roomId, "", 0, 0, <<>>, Get(e.data.status)))]
    ELSE p

FoldStatusChanged(p, e) ==
    IF e.roomId # Absent /\ IsSome(e.data.status) /\ IsSome(p.rooms[e.roomId])
    THEN [p EXCEPT !.rooms[e.roomId] =
              Some([Get(p.rooms[e.roomId]) EXCEPT !.status = Get(e.data.status)])]
    ELSE p

\* the updater reads a property of event.data where event.data is undefined,
\* which raises a TypeError: room_created / room_updated read data.room,
\* participant_joined / participant_updated data.participant,
\* auto_assignment_completed data.assignments, and room_status_changed reads
\* data.status once event.roomId is truthy
Throws(e) ==
    /\ ~e.data.present
    /\ \/ e.type \in {"room_created", "room_updated", "participant_joined",
                      "participant_updated", "auto_assignment_completed"}
       \/ e.type = "room_status_changed" /\ e.roomId # Absent

\* the switch of the updater, then newState.lastUpdate = event.timestamp
Fold(p, e) ==
    LET q == CASE e.type \in {"room_created", "room_updated"} -> FoldRoomUpsert(p, e)
               [] e.type = "room_deleted" -> FoldRoomDeleted(p, e)
               [] e.type \in {"participant_joined", "participant_updated"} ->
                      FoldParticipantUpsert(p, e)
               [] e.type = "participant_left" -> FoldParticipantLeft(p, e)
               [] e.type = "auto_assignment_completed" -> FoldAutoAssignment(p, e)
               [] e.type = "room_status_changed" -> FoldStatusChanged(p, e)
               [] OTHER -> p
    IN [q EXCEPT !.lastUpdate = e.timestamp]

CurrentProjection == Projection(rooms, participants, currentRoom, lastUpdate)

\* processEvent(event)
NoDedupIsDuplicate(handlers, e) == FALSE
IsDuplicate(handlers, e) == HasKey(handlers, EventKey(e))

HookState(rs, ps, cur, lu, handlers, m) ==
    [rooms |-> rs, participants |-> ps, currentRoom |-> cur, lastUpdate |-> lu,
     eventHandlers |-> handlers, metrics |-> m]

CurrentHookState ==
    HookState(rooms, participants, currentRoom, lastUpdate, eventHandlers, metrics)

\* the hook state after processEvent(e) on the hook state st
ProcessEventOn(st, e, analytics) ==
    IF IsDuplicate(st.eventHandlers, e)
    THEN st
    ELSE LET held == Projection(st.rooms, st.participants, st.currentRoom, st.lastUpdate)
             q == IF Throws(e) THEN held ELSE Fold(held, e)
         IN HookState(q.rooms, q.participants, q.currentRoom, q.lastUpdate,
                      SetKey(st.eventHandlers, EventKey(e)),
                      IF analytics
                      THEN [st.metrics EXCEPT !.eventsReceived = @ + 1]
                      ELSE st.metrics)

ProcessEvent(e) ==
    LET st == ProcessEventOn(CurrentHookState, e, enableAnalytics) IN
    /\ rooms' = st.rooms
    /\ participants' = st.participants
    /\ currentRoom' = st.currentRoom
    /\ lastUpdate' = st.lastUpdate
    /\ eventHandlers' = st.eventHandlers
    /\ metrics' = st.metrics
    /\ log' = Append(log, [op |-> "processEvent", event |-> e,
                           dropped |-> IsDuplicate(eventHandlers, e),
                           threw |-> ~IsDuplicate(eventHandlers, e) /\ Throws(e)])

\* clearCache()
KeepKeysClearedHandlers(handlers) == handlers
ClearedHandlers(handlers) == <<>>

ClearCacheEffect ==
    /\ rooms' = EmptyRooms
    /\ participants' = EmptyParticipants
    /\ eventHandlers' = ClearedHandlers(eventHandlers)
    /\ UNCHANGED <<currentRoom, lastUpdate, metrics>>

----------------------------------------------------------------------------
(* Events delivered to the reducer *)

RoomA == MkRoom("r1", "Alpha", 0, 2, <<>>, "waiting")
RoomB == MkRoom("r1", "Alpha", 2, 2, <<"p1", "p2">>, "active")
RoomC == MkRoom("r2", "Beta", 1, 2, <<"p1">>, "waiting")

RoomEvt(type, room, ts) ==
    MkEvent(type, room.id, Absent, [NoData EXCEPT !.room = Some(room)], ts)

JoinEvt(type, pid, rid, count, roster, ts) ==
    MkEvent(type, rid, pid,
            [NoData EXCEPT !.participant = Some(MkParticipant(pid, pid)),
                           !.participantCount = count, !.participants = roster], ts)

LeftEvt(pid, rid, ts) == MkEvent("participant_left", rid, pid, NoData, ts)

NoEvent == MkEvent("none", Absent, Absent, NoData, 0)

EventPool ==
    { RoomEvt("room_created", RoomA, 1),
      RoomEvt("room_created", RoomB, 1),
      RoomEvt("room_updated", RoomB, 2),
      RoomEvt("room_updated", RoomA, 1),
      RoomEvt("room_created", RoomC, 2),
      MkEvent("room_deleted", "r1", Absent, NoData, 1),
      JoinEvt("participant_joined", "p1", "r1", Some(1), Some(<<"p1">>), 1),
      JoinEvt("participant_updated", "p2", "r1", None, None, 2),
      LeftEvt("p1", "r1", 2),
      LeftEvt("p2", "r2", 1),
      MkEvent("room_status_changed", "r1", Absent, [NoData EXCEPT !.status = Some("paused")], 1),
      MkEvent("auto_assignment_completed", Absent, Absent,
              [NoData EXCEPT !.assignments =
                  Some(<<[roomId |-> "r1", participant |-> Some(MkParticipant("p2", "p2"))]>>)], 1),
      MkEvent("message_received", "r1", Absent, NoData, 1),
      MkEvent("moderation_action", Absent, Absent, NoData, 1) }

LogEntry(op, e, dropped) == [op |-> op, event |-> e, dropped |-> dropped, threw |-> FALSE]

----------------------------------------------------------------------------
(* Initial states *)

NoOutcome ==
    [op |-> "none", error |-> "none", emitted |-> "none", statusAtCall |-> "none",
     calls |-> <<>>, roomId |-> Absent]
NoConfig == [name |-> <<>>, maxParticipants |-> 0]
NoResult == [success |-> FALSE, room |-> None, error |-> "none"]
NoOpResult == [op |-> "none", success |-> FALSE, error |-> "none", raised |-> FALSE]
NoInbound == [kind |-> "none", sessionId |-> "", room |-> None, seq |-> 0]

\* the listeners of the two create events: those the constructor installs and
\* those one acknowledgment wait registers (onCreated, onError)
Listener(event, owner) == [event |-> event, owner |-> owner]
PermanentListeners ==
    {Listener("breakout_room_created", "service"),
     Listener("breakout_room_create_error", "service")}
WaitListeners ==
    {Listener("breakout_room_created", "wait"),
     Listener("breakout_room_create_error", "wait")}

\* off(name) called without a handler: the transport adapter documents
\* off(name, handler) only, so the call removes every listener of that name or
\* removes none
OffModes == {"all", "none"}
OffByName(ls, name, mode) == IF mode = "all" THEN {l \in ls : l.event # name} ELSE ls

\* the service after construction (part_004 lines 55-66), no call made yet
InitService ==
    /\ pc = "idle"
    /\ cfg = NoConfig
    /\ socketConnected = FALSE
    /\ tokenState = "valid"
    /\ ackOutcome = "none"
    /\ inbound = NoInbound
    /\ netLog = <<>>
    /\ roomCache = [r \in RoomIds |-> None]
    /\ thrown = "none"
    /\ restOutcome = "none"
    /\ restResult = NoResult
    /\ replies = [api |-> "none", legacy |-> "none"]
    /\ pollAttempt = 0
    /\ result = NoResult
    /\ opResult = NoOpResult
    /\ listeners = PermanentListeners

InitReplay ==
    /\ phase = "run"
    /\ snapshot = Projection(EmptyRooms, EmptyParticipants, Absent, 0)
    /\ replayIdx = 0

\* useState / useRef initial values of the hook (part_003 lines 90-113)
InitHook ==
    /\ rooms = EmptyRooms
    /\ participants = EmptyParticipants
    /\ currentRoom = Absent
    /\ lastUpdate = 0
    /\ connectionStatus = "disconnected"
    /\ eventHandlers = <<>>
    /\ metrics = [eventsReceived |-> 0, eventsSent |-> 0]
    /\ enableAnalytics \in BOOLEAN
    /\ capturedStatus = "disconnected"
    /\ pendingConnects = 0
    /\ pendingReconnects = 0
    /\ log = <<>>
    /\ last = NoOutcome

\* The hook after connect() succeeded, a re-render with a changed enableAnalytics
\* re-memoised the room operations, and joinRoom("r1") was called: the state from
\* which the reducer is exercised with a current room set.
InitHookJoined ==
    /\ rooms = EmptyRooms
    /\ participants = EmptyParticipants
    /\ currentRoom = "r1"
    /\ lastUpdate = 0
    /\ connectionStatus = "connected"
    /\ eventHandlers = <<>>
    /\ enableAnalytics \in BOOLEAN
    /\ metrics = [eventsReceived |-> 0, eventsSent |-> IF enableAnalytics THEN 1 ELSE 0]
    /\ capturedStatus = "connected"
    /\ pendingConnects = 0
    /\ pendingReconnects = 0
    /\ log = <<>>
    /\ last = [op |-> "joinRoom", error |-> "none", emitted |-> "join_breakout_room",
               statusAtCall |-> "connected", calls |-> <<"join_breakout_room">>,
               roomId |-> "r1"]

Init == (InitHook \/ InitHookJoined) /\ InitReplay /\ InitService

----------------------------------------------------------------------------
(* Reducer specification: events and clearCache in any order *)

FeedEvent ==
    /\ Len(log) < MaxEvents
    /\ \E e \in EventPool : ProcessEvent(e)
    /\ UNCHANGED <<enableAnalytics, connectionStatus, capturedStatus, pendingConnects,
                   pendingReconnects, last, replayVars, svcVars>>

ClearCache ==
    /\ Len(log) < MaxEvents
    /\ ClearCacheEffect
    /\ log' = Append(log, LogEntry("clearCache", NoEvent, FALSE))
    /\ UNCHANGED <<enableAnalytics, connectionStatus, capturedStatus, pendingConnects,
                   pendingReconnects, last, replayVars, svcVars>>

Next == FeedEvent \/ ClearCache

Spec == Init /\ [][Next]_vars

----------------------------------------------------------------------------
(* Dedup-cap specification.  The run starts at the hook state after the first  *)
(* CapStart distinct events CapEvent(1) .. CapEvent(CapStart) were processed,  *)
(* and continues with further distinct events and with repeated deliveries of  *)
(* earlier ones.                                                               *)

CapEvent(t) ==
    IF t = 1 THEN RoomEvt("room_created", RoomA, 1)
    ELSE IF t = 2 THEN RoomEvt("room_updated", RoomB, 2)
    ELSE MkEvent("message_received", "r1", Absent, NoData, t)

CapStart == DedupCap - 2

\* the hook state after processEvent(CapEvent(1)), ..., processEvent(CapEvent(CapStart))
\* from the hook's initial state (SpecCapPrefix reaches exactly this state)
CapStartState(analytics) ==
    HookState([EmptyRooms EXCEPT !["r1"] = Some(RoomB)], EmptyParticipants, Absent,
              CapStart,
              [i \in 1..CapStart |-> EventKey(CapEvent(i))],
              [eventsReceived |-> IF analytics THEN CapStart ELSE 0, eventsSent |-> 0])

InitCapHook ==
    /\ enableAnalytics \in BOOLEAN
    /\ LET st == CapStartState(enableAnalytics) IN
       /\ rooms = st.rooms
       /\ participants = st.participants
       /\ currentRoom = st.currentRoom
       /\ lastUpdate = st.lastUpdate
       /\ eventHandlers = st.eventHandlers
       /\ metrics = st.metrics
    /\ log = [i \in 1..CapStart |-> LogEntry("processEvent", CapEvent(i), FALSE)]
    /\ connectionStatus = "disconnected"
    /\ capturedStatus = "disconnected"
    /\ pendingConnects = 0
    /\ pendingReconnects = 0
    /\ last = NoOutcome

\* the next distinct event: timestamps 1, 2, ... were delivered in this order
FreshTimestamp == Cardinality({log[i].event.timestamp : i \in 1..Len(log)}) + 1

\* the timestamps delivered again: the oldest key, the last one the first eviction
\* drops, the first one it keeps, and the newest of the start state
RedeliverTimestamps == {1, EvictCount, EvictCount + 1, CapStart}

CapFeedFresh ==
    /\ Len(log) < CapStart + CapRun
    /\ ProcessEvent(CapEvent(FreshTimestamp))
    /\ UNCHANGED <<enableAnalytics, connectionStatus, capturedStatus, pendingConnects,
                   pendingReconnects, last, replayVars, svcVars>>

CapRedeliver ==
    /\ Len(log) < CapStart + CapRun
    /\ \E t \in RedeliverTimestamps : ProcessEvent(CapEvent(t))
    /\ UNCHANGED <<enableAnalytics, connectionStatus, capturedStatus, pendingConnects,
                   pendingReconnects, last, replayVars, svcVars>>

NextCap == CapFeedFresh \/ CapRedeliver

InitCap == InitCapHook /\ InitReplay /\ InitService

SpecCap == InitCap /\ [][NextCap]_vars

\* The same run from the hook's initial state, every event delivered one by one
\* (used to confirm that the start state of SpecCap is reached).
CapFeedPrefix ==
    /\ Len(log) < CapStart
    /\ ProcessEvent(CapEvent(Len(log) + 1))
    /\ UNCHANGED <<enableAnalytics, connectionStatus, capturedStatus, pendingConnects,
                   pendingReconnects, last, replayVars, svcVars>>

InitCapPrefix == InitHook /\ InitReplay /\ InitService

SpecCapPrefix == InitCapPrefix /\ [][CapFeedPrefix]_vars

CapStartReached ==
    Len(log) = CapStart =>
        /\ CurrentHookState = CapStartState(enableAnalytics)
        /\ log = [i \in 1..CapStart |-> LogEntry("processEvent", CapEvent(i), FALSE)]

----------------------------------------------------------------------------
(* Replay specification: a sequence S of events is processed, clearCache is    *)
(* called, and the same sequence S is processed again in the same order.       *)

\* the length of S, once clearCache was called: log = S, clearCache, replayed part
RunLength == Len(log) - replayIdx

ReplayFeed ==
    /\ phase = "run"
    /\ Len(log) < MaxEvents
    /\ \E e \in EventPool : ProcessEvent(e)
    /\ UNCHANGED <<enableAnalytics, connectionStatus, capturedStatus, pendingConnects,
                   pendingReconnects, last, replayVars, svcVars>>

ReplayClearCache ==
    /\ phase = "run"
    /\ ClearCacheEffect
    /\ log' = Append(log, LogEntry("clearCache", NoEvent, FALSE))
    /\ snapshot' = CurrentProjection
    /\ phase' = "replay"
    /\ replayIdx' = 1
    /\ UNCHANGED <<enableAnalytics, connectionStatus, capturedStatus, pendingConnects,
                   pendingReconnects, last, svcVars>>

ReplayStep ==
    /\ phase = "replay"
    /\ replayIdx <= RunLength
    /\ ProcessEvent(log[replayIdx].event)
    /\ replayIdx' = replayIdx + 1
    /\ UNCHANGED <<enableAnalytics, connectionStatus, capturedStatus, pendingConnects,
                   pendingReconnects, last, phase, snapshot, svcVars>>

NextReplay == ReplayFeed \/ ReplayClearCache \/ ReplayStep

SpecReplay == Init /\ [][NextReplay]_vars

----------------------------------------------------------------------------
(* Connection management and room operations of the hook *)

\* what an operation did: the error it raised, the request it emitted, the status
\* it was called in and its calls on the transport, in order
OutcomeCalls(op, error, emitted, calls) ==
    [op |-> op, error |-> error, emitted |-> emitted, statusAtCall |-> connectionStatus,
     calls |-> calls, roomId |-> Absent]

Outcome(op, error, emitted) ==
    OutcomeCalls(op, error, emitted, IF emitted = "none" THEN <<>> ELSE <<emitted>>)

\* a disconnect that tears the transport down before it says goodbye
TeardownFirstCalls == <<"disconnect", "leave_breakout_session">>

\* disconnect(): emit('leave_breakout_session'), then the transport's disconnect()
DisconnectCalls == <<"leave_breakout_session", "disconnect">>

\* connect(): status 'connecting', then await enhancedSocketService.connect()
Connect ==
    /\ pendingConnects < MaxPending
    /\ connectionStatus' = "connecting"
    /\ pendingConnects' = pendingConnects + 1
    /\ last' = OutcomeCalls("connect", "none", "none", <<"connect">>)
    /\ UNCHANGED <<rooms, participants, currentRoom, lastUpdate, eventHandlers, metrics,
                   enableAnalytics, capturedStatus, pendingReconnects, log, replayVars,
                   svcVars>>

\* the awaited transport connect resolved: setupEventListeners(), then the emit
ConnectResolved ==
    /\ pendingConnects > 0
    /\ connectionStatus' = "connected"
    /\ pendingConnects' = pendingConnects - 1
    /\ last' = Outcome("connect", "none", "join_breakout_session")
    /\ UNCHANGED <<rooms, participants, currentRoom, lastUpdate, eventHandlers, metrics,
                   enableAnalytics, capturedStatus, pendingReconnects, log, replayVars,
                   svcVars>>

\* the awaited transport connect rejected: the catch block
ConnectRejected ==
    /\ pendingConnects > 0
    /\ connectionStatus' = "error"
    /\ pendingConnects' = pendingConnects - 1
    /\ last' = Outcome("connect", "connect failed", "none")
    /\ UNCHANGED <<rooms, participants, currentRoom, lastUpdate, eventHandlers, metrics,
                   enableAnalytics, capturedStatus, pendingReconnects, log, replayVars,
                   svcVars>>

\* disconnect()
DisconnectEffect ==
    /\ connectionStatus' = "disconnected"
    /\ UNCHANGED <<rooms, participants, currentRoom, lastUpdate, eventHandlers, metrics,
                   enableAnalytics, capturedStatus, pendingConnects, log, replayVars,
                   svcVars>>

Disconnect ==
    /\ DisconnectEffect
    /\ last' = OutcomeCalls("disconnect", "none", "leave_breakout_session", DisconnectCalls)
    /\ UNCHANGED pendingReconnects

\* a reconnect that starts its connect without waiting for the pause
EagerReconnect ==
    /\ pendingReconnects < MaxPending
    /\ pendingConnects < MaxPending
    /\ connectionStatus' = "connecting"
    /\ pendingConnects' = pendingConnects + 1
    /\ last' = OutcomeCalls("reconnect", "none", "leave_breakout_session",
                            DisconnectCalls \o <<"connect">>)
    /\ UNCHANGED <<rooms, participants, currentRoom, lastUpdate, eventHandlers, metrics,
                   enableAnalytics, capturedStatus, pendingReconnects, log, replayVars,
                   svcVars>>

\* reconnect(): disconnect(), then the 1 s pause
Reconnect ==
    /\ pendingReconnects < MaxPending
    /\ DisconnectEffect
    /\ last' = OutcomeCalls("reconnect", "none", "leave_breakout_session", DisconnectCalls)
    /\ pendingReconnects' = pendingReconnects + 1

\* reconnect() after its pause: await connect()
ReconnectResume ==
    /\ pendingReconnects > 0
    /\ pendingConnects < MaxPending
    /\ pendingReconnects' = pendingReconnects - 1
    /\ connectionStatus' = "connecting"
    /\ pendingConnects' = pendingConnects + 1
    /\ last' = OutcomeCalls("reconnect", "none", "none", <<"connect">>)
    /\ UNCHANGED <<rooms, participants, currentRoom, lastUpdate, eventHandlers, metrics,
                   enableAnalytics, capturedStatus, log, replayVars, svcVars>>

\* A render with a changed enableAnalytics option: useCallback([sessionId,
\* enableAnalytics]) memoises createRoom, joinRoom, leaveRoom and sendMessage anew,
\* and the new closures hold the state of that render.
OptionsChange ==
    /\ enableAnalytics' = ~enableAnalytics
    /\ capturedStatus' = connectionStatus
    /\ UNCHANGED <<rooms, participants, currentRoom, lastUpdate, eventHandlers, metrics,
                   connectionStatus, pendingConnects, pendingReconnects, log, last,
                   replayVars, svcVars>>

\* if (state.connectionStatus !== 'connected') throw ...: state is the closure's
GuardPasses(status) == status = "connected"

CountSent(m) == IF enableAnalytics THEN [m EXCEPT !.eventsSent = @ + 1] ELSE m

\* createRoom, joinRoom, leaveRoom, sendMessage, called for room roomId (Absent
\* for createRoom)
GuardedOp(op, emitName, roomId, newCurrentRoom) ==
    /\ metrics.eventsSent < MaxSent
    /\ IF GuardPasses(capturedStatus)
       THEN /\ last' = [Outcome(op, "none", emitName) EXCEPT !.roomId = roomId]
            /\ currentRoom' = newCurrentRoom
            /\ metrics' = CountSent(metrics)
       ELSE /\ last' = [Outcome(op, "Socket not connected", "none") EXCEPT !.roomId = roomId]
            /\ UNCHANGED <<currentRoom, metrics>>
    /\ UNCHANGED <<rooms, participants, lastUpdate, eventHandlers, enableAnalytics,
                   connectionStatus, capturedStatus, pendingConnects, pendingReconnects,
                   log, replayVars, svcVars>>

CreateRoom == GuardedOp("createRoom", "create_breakout_room", Absent, currentRoom)

\* setState(prev => ({ ...prev, currentRoom: roomId }))
JoinRoom == \E r \in RoomIds : GuardedOp("joinRoom", "join_breakout_room", r, r)

\* a leave that clears the current room whatever room is left
ClearAlwaysAfterLeave(cur, r) == Absent

\* currentRoom: prev.currentRoom === roomId ? null : prev.currentRoom
AfterLeave(cur, r) == IF cur = r THEN Absent ELSE cur

LeaveRoom ==
    \E r \in RoomIds :
        GuardedOp("leaveRoom", "leave_breakout_room", r, AfterLeave(currentRoom, r))

SendMessage ==
    \E r \in RoomIds : GuardedOp("sendMessage", "send_breakout_message", r, currentRoom)

\* updateRoom, deleteRoom, updateParticipant, moderateParticipant, sendReaction:
\* the emit and nothing else
UnguardedOp(op, emitName) ==
    /\ last' = Outcome(op, "none", emitName)
    /\ UNCHANGED <<rooms, participants, currentRoom, lastUpdate, eventHandlers, metrics,
                   enableAnalytics, connectionStatus, capturedStatus, pendingConnects,
                   pendingReconnects, log, replayVars, svcVars>>

UpdateRoom == UnguardedOp("updateRoom", "update_breakout_room")
DeleteRoom == UnguardedOp("deleteRoom", "delete_breakout_room")
UpdateParticipant == UnguardedOp("updateParticipant", "update_breakout_participant")
ModerateParticipant == UnguardedOp("moderateParticipant", "moderate_breakout_participant")
SendReaction == UnguardedOp("sendReaction", "send_breakout_reaction")

NextConn ==
    \/ Connect \/ ConnectResolved \/ ConnectRejected
    \/ Disconnect \/ Reconnect \/ ReconnectResume
    \/ OptionsChange
    \/ CreateRoom \/ JoinRoom \/ LeaveRoom \/ SendMessage
    \/ UpdateRoom \/ DeleteRoom \/ UpdateParticipant \/ ModerateParticipant \/ SendReaction

InitConn == InitHook /\ InitReplay /\ InitService

SpecConn == InitConn /\ [][NextConn]_vars

----------------------------------------------------------------------------
(* Room specification: the hook's connection and room operations together    *)
(* with the reducer's events and the server's join rejections.               *)

RoomEventPool ==
    { RoomEvt("room_created", RoomA, 1),
      RoomEvt("room_updated", RoomC, 2),
      MkEvent("room_deleted", "r1", Absent, NoData, 1),
      MkEvent("room_deleted", "r2", Absent, NoData, 2),
      JoinEvt("participant_joined", "p1", "r1", Some(1), Some(<<"p1">>), 1),
      LeftEvt("p1", "r1", 2),
      MkEvent("room_status_changed", "r1", Absent, [NoData EXCEPT !.status = Some("paused")], 2),
      MkEvent("moderation_action", Absent, Absent, NoData, 1) }

RoomFeedEvent ==
    /\ Len(log) < MaxRoomEvents
    /\ \E e \in RoomEventPool : ProcessEvent(e)
    /\ UNCHANGED <<enableAnalytics, connVars, replayVars, svcVars>>

RoomClearCache ==
    /\ Len(log) < MaxRoomEvents
    /\ ClearCacheEffect
    /\ log' = Append(log, LogEntry("clearCache", NoEvent, FALSE))
    /\ UNCHANGED <<enableAnalytics, connVars, replayVars, svcVars>>

\* a join rejection that takes the optimistic currentRoom back
RollbackJoinErrorDelivered ==
    /\ Len(log) < MaxRoomEvents
    /\ \E r \in RoomIds :
          /\ log' = Append(log, LogEntry("breakout_room_join_error",
                                         MkEvent("join_error", r, Absent, NoData, 0), FALSE))
          /\ currentRoom' = IF currentRoom = r THEN Absent ELSE currentRoom
    /\ UNCHANGED <<rooms, participants, lastUpdate, eventHandlers, metrics, enableAnalytics,
                   connVars, replayVars, svcVars>>

\* the server rejects a join with breakout_room_join_error: the hook has
\* registered no listener for it, so only the delivery itself is recorded
JoinErrorDelivered ==
    /\ Len(log) < MaxRoomEvents
    /\ \E r \in RoomIds :
          log' = Append(log, LogEntry("breakout_room_join_error",
                                      MkEvent("join_error", r, Absent, NoData, 0), FALSE))
    /\ UNCHANGED <<reducerVars, enableAnalytics, connVars, replayVars, svcVars>>

NextRoom ==
    \/ Connect \/ ConnectResolved \/ Disconnect
    \/ JoinRoom \/ LeaveRoom
    \/ RoomFeedEvent \/ RoomClearCache \/ JoinErrorDelivered

SpecRoom == Init /\ [][NextRoom]_vars

----------------------------------------------------------------------------
(* Edge specification: the reducer fed with events that supply zero or empty   *)
(* values, that lack an identifier, or that have no data at all.               *)

EdgeEventPool ==
    { RoomEvt("room_created", RoomB, 1),
      RoomEvt("room_created", RoomC, 1),
      JoinEvt("participant_updated", "p1", "r1", Some(0), Some(<<>>), 2),
      JoinEvt("participant_joined", "p2", "r1", Some(1), None, 2),
      JoinEvt("participant_joined", "p2", "r2", None, Some(<<"p1", "p2">>), 3),
      MkEvent("room_status_changed", "r1", Absent, [NoData EXCEPT !.status = Some("paused")], 2),
      MkEvent("room_status_changed", "r2", Absent, [NoData EXCEPT !.status = Some("closed")], 2),
      MkEvent("room_status_changed", "r1", Absent, NoData, 3),
      MkEvent("room_updated", "r1", Absent, NoData, 3),
      MkEvent("room_deleted", Absent, Absent, NoData, 3),
      MkEvent("room_status_changed", Absent, Absent,
              [NoData EXCEPT !.status = Some("paused")], 4),
      MkEvent("participant_joined", "r1", Absent, NoData, 4),
      JoinEvt("participant_updated", "p1", Absent, Some(1), None, 4),
      MkEvent("participant_left", "r1", Absent, NoData, 4),
      MkEvent("participant_left", Absent, "p1", NoData, 4),
      MkEvent("room_created", "r1", Absent, NoPayload, 5),
      MkEvent("participant_joined", "r1", "p1", NoPayload, 5),
      MkEvent("room_deleted", Absent, Absent, NoPayload, 5),
      MkEvent("room_status_changed", "r1", Absent, NoPayload, 5) }

EdgeFeedEvent ==
    /\ Len(log) < MaxEvents
    /\ \E e \in EdgeEventPool : ProcessEvent(e)
    /\ UNCHANGED <<enableAnalytics, connVars, replayVars, svcVars>>

NextEdge == EdgeFeedEvent

SpecEdge == Init /\ [][NextEdge]_vars

----------------------------------------------------------------------------
(* Membership specification: the reducer fed with room snapshots, joins that   *)
(* carry counts, leaves and auto-assignments, interleaved with clearCache.     *)

Assignment(rid, pid) == [roomId |-> rid, participant |-> Some(MkParticipant(pid, pid))]

AssignEvt(assignments, ts) ==
    MkEvent("auto_assignment_completed", Absent, Absent,
            [NoData EXCEPT !.assignments = Some(assignments)], ts)

MemberEventPool ==
    { RoomEvt("room_created", RoomB, 1),
      RoomEvt("room_created", RoomC, 1),
      RoomEvt("room_updated", RoomA, 2),
      JoinEvt("participant_joined", "p2", "r2", Some(3), Some(<<"p1", "p2">>), 2),
      JoinEvt("participant_joined", "p1", "r1", Some(1), Some(<<"p1">>), 2),
      JoinEvt("participant_updated", "p2", "r1", None, None, 3),
      LeftEvt("p1", "r1", 3),
      LeftEvt("p1", "r2", 3),
      LeftEvt("p2", "r1", 4),
      AssignEvt(<<Assignment("r1", "p2")>>, 3),
      AssignEvt(<<Assignment("r2", "p1"), Assignment("r1", "p2")>>, 4),
      AssignEvt(<<[roomId |-> "r1", participant |-> None]>>, 5),
      MkEvent("room_status_changed", "r1", Absent, [NoData EXCEPT !.status = Some("paused")], 1) }

MemberFeedEvent ==
    /\ Len(log) < MaxEvents
    /\ \E e \in MemberEventPool : ProcessEvent(e)
    /\ UNCHANGED <<enableAnalytics, connVars, replayVars, svcVars>>

NextMember == MemberFeedEvent \/ ClearCache

SpecMember == Init /\ [][NextMember]_vars

----------------------------------------------------------------------------
(* The breakout service: createBreakoutRoom and its REST fallback chain *)

SessionId == "s1"
SessionIds == {"s1", "s2"}

\* room names are sequences of characters, so that trim() is computed
RoomNames == {<<>>, <<" ">>, <<"A">>, <<" ", "A">>, <<"B">>}

MaxParticipantsPool ==
    {MinParticipants - 1, MinParticipants, 6, MaxParticipants, MaxParticipants + 1}

RoomConfigs == [name : RoomNames, maxParticipants : MaxParticipantsPool]

RECURSIVE TrimStart(_)
TrimStart(s) == IF s # <<>> /\ Head(s) = " " THEN TrimStart(Tail(s)) ELSE s

RECURSIVE TrimEnd(_)
TrimEnd(s) ==
    IF s # <<>> /\ s[Len(s)] = " " THEN TrimEnd(SubSeq(s, 1, Len(s) - 1)) ELSE s

Trim(s) == TrimEnd(TrimStart(s))

\* a validation that forgets trim()
UntrimmedValidationError(c) ==
    IF c.name = <<>> THEN "Room name is required"
    ELSE IF c.maxParticipants < MinParticipants \/ c.maxParticipants > MaxParticipants
         THEN "Max participants must be between 2 and 20"
         ELSE "none"

\* the error the validation throws, "none" when the configuration passes
ValidationError(c) ==
    IF Trim(c.name) = <<>> THEN "Room name is required"
    ELSE IF c.maxParticipants < MinParticipants \/ c.maxParticipants > MaxParticipants
         THEN "Max participants must be between 2 and 20"
         ELSE "none"

SvcRoom(id, name) == [id |-> id, name |-> name]

\* the rooms the server may report
ServerRooms == {SvcRoom("r1", <<"A">>), SvcRoom("r2", <<"B">>)}

Success(room) == [success |-> TRUE, room |-> room, error |-> "none"]
Failure(msg) == [success |-> FALSE, room |-> None, error |-> msg]

\* this.roomCache.set(room.id, room) when the room has an id
CacheSet(cache, room) ==
    IF IsSome(room) THEN [cache EXCEPT ![Get(room).id] = room] ELSE cache

\* requests made by debugBreakoutRoomPermissions
DebugAnalysisCalls == <<>>

\* createBreakoutRoom is called: the configuration is validated first
CreateCall(c, conn, tok) ==
    /\ pc = "idle"
    /\ cfg' = c
    /\ socketConnected' = conn
    /\ tokenState' = tok
    /\ IF ValidationError(c) # "none"
       THEN /\ thrown' = ValidationError(c)
            /\ pc' = "catch"
       ELSE /\ thrown' = thrown
            /\ pc' = "debugFetch"
    /\ opResult' = NoOpResult
    /\ UNCHANGED <<ackOutcome, inbound, netLog, roomCache, restOutcome, restResult,
                   replies, pollAttempt, result>>
    /\ UNCHANGED <<hookVars, listeners>>

\* the request to the backend debug endpoint; its outcome is only logged
DebugFetch ==
    /\ pc = "debugFetch"
    /\ netLog' = Append(netLog, "GET debug-permissions")
    /\ pc' = "permCheck"
    /\ UNCHANGED <<cfg, socketConnected, tokenState, ackOutcome, inbound, roomCache, thrown,
                   restOutcome, restResult, replies, pollAttempt, result>>
    /\ UNCHANGED <<hookVars, opResult, listeners>>

\* validateSessionPermissions answers; on success the create request is emitted
\* when the socket is connected, otherwise the REST path is taken
PermissionCheck(valid) ==
    /\ pc = "permCheck"
    /\ IF ~valid
       THEN /\ netLog' = netLog \o DebugAnalysisCalls
            /\ result' = Failure("Insufficient permissions to create breakout rooms")
            /\ pc' = "done"
       ELSE /\ result' = result
            /\ IF socketConnected
               THEN /\ netLog' = Append(netLog, "emit create_breakout_room")
                    /\ pc' = "waiting"
               ELSE /\ netLog' = netLog
                    /\ pc' = "rest"
    /\ listeners' = IF valid /\ socketConnected THEN listeners \cup WaitListeners
                     ELSE listeners
    /\ UNCHANGED <<cfg, socketConnected, tokenState, ackOutcome, inbound, roomCache, thrown,
                   restOutcome, restResult, replies, pollAttempt>>
    /\ UNCHANGED <<hookVars, opResult>>

\* onCreated's test: same session and same room name
IgnoreSessionAckMatches(sess, room, c) == IsSome(room) /\ Get(room).name = c.name

AckMatches(sess, room, c) ==
    sess = SessionId /\ IsSome(room) /\ Get(room).name = c.name

\* a wait that ends in failure is reported to the caller at once
ReportAckFailure(msg) == [pc |-> "done", result |-> Failure(msg)]

\* a wait that ends in failure emits the create request again
RetryEmitAfterAckFailure(msg) == [pc |-> "permCheck", result |-> result]

\* a wait that ends in failure falls through to createRoomViaAPI
AfterAckFailure(msg) == [pc |-> "rest", result |-> result]

InboundRooms == {None} \cup {Some(r) : r \in ServerRooms}

\* a breakout_room_created event arrives: the permanent listener caches its
\* room, and a pending wait resolves if the event matches the call
DeliverCreated(sess, room) ==
    /\ inbound.seq < MaxInbound
    /\ inbound' = [kind |-> "breakout_room_created", sessionId |-> sess, room |-> room,
                   seq |-> inbound.seq + 1]
    /\ roomCache' = IF Listener("breakout_room_created", "service") \in listeners
                     THEN CacheSet(roomCache, room)
                     ELSE roomCache
    /\ listeners' = IF /\ Listener("breakout_room_created", "wait") \in listeners
                        /\ AckMatches(sess, room, cfg)
                     THEN listeners \ WaitListeners
                     ELSE listeners
    /\ IF pc = "waiting" /\ AckMatches(sess, room, cfg)
       THEN /\ ackOutcome' = "created"
            /\ result' = Success(room)
            /\ pc' = "done"
       ELSE UNCHANGED <<ackOutcome, result, pc>>
    /\ UNCHANGED <<cfg, socketConnected, tokenState, netLog, thrown, restOutcome, restResult,
                   replies, pollAttempt>>
    /\ UNCHANGED <<hookVars, opResult>>

\* a breakout_room_create_error event arrives: a pending wait ends in failure
DeliverCreateError ==
    /\ inbound.seq < MaxInbound
    /\ inbound' = [kind |-> "breakout_room_create_error", sessionId |-> "", room |-> None,
                   seq |-> inbound.seq + 1]
    /\ listeners' = IF Listener("breakout_room_create_error", "wait") \in listeners
                     THEN listeners \ WaitListeners
                     ELSE listeners
    /\ IF pc = "waiting"
       THEN /\ ackOutcome' = "error"
            /\ result' = AfterAckFailure("Server reported creation error").result
            /\ pc' = AfterAckFailure("Server reported creation error").pc
       ELSE UNCHANGED <<ackOutcome, result, pc>>
    /\ UNCHANGED <<cfg, socketConnected, tokenState, netLog, roomCache, thrown, restOutcome,
                   restResult, replies, pollAttempt>>
    /\ UNCHANGED <<hookVars, opResult>>

\* the 8 second timer fires while the wait is pending: off(name) for both
\* event names, without a handler, then the wait resolves with a failure
AckTimeout(mode) ==
    /\ pc = "waiting"
    /\ listeners' = OffByName(OffByName(listeners, "breakout_room_created", mode),
                              "breakout_room_create_error", mode)
    /\ ackOutcome' = "timeout"
    /\ result' = AfterAckFailure("Timed out waiting for server acknowledgment").result
    /\ pc' = AfterAckFailure("Timed out waiting for server acknowledgment").pc
    /\ UNCHANGED <<cfg, socketConnected, tokenState, inbound, netLog, roomCache, thrown,
                   restOutcome, restResult, replies, pollAttempt>>
    /\ UNCHANGED <<hookVars, opResult>>

\* createRoomViaAPI throws: the error travels to createBreakoutRoom's catch
RestThrow(msg) ==
    /\ restOutcome' = "threw"
    /\ restResult' = Failure(msg)
    /\ thrown' = msg
    /\ pc' = "catch"
    /\ result' = result

\* createRoomViaAPI returns a room, which createBreakoutRoom returns as is
RestReturn(room) ==
    /\ restOutcome' = "returned"
    /\ restResult' = Success(room)
    /\ result' = Success(room)
    /\ pc' = "done"
    /\ thrown' = thrown

\* createRoomViaAPI is entered: the token is checked before any request
RestStart ==
    /\ pc = "rest"
    /\ CASE tokenState = "missing" -> RestThrow("No authentication token available")
         [] tokenState = "invalid" ->
                RestThrow("Authentication token is invalid or expired")
         [] OTHER -> /\ restOutcome' = "running"
                     /\ pc' = "restAdapter"
                     /\ UNCHANGED <<restResult, thrown, result>>
    /\ UNCHANGED <<cfg, socketConnected, tokenState, ackOutcome, inbound, netLog, roomCache,
                   replies, pollAttempt>>
    /\ UNCHANGED <<hookVars, opResult, listeners>>

\* the error texts a failed create request may carry; "" is no text at all
NotFoundTexts == {"HTTP 404: Not Found", "Not Found"}
ErrorTexts == NotFoundTexts \cup {"HTTP 500: Internal Server Error", ""}

\* the backend adapter answers; only a success with a room ends the call
AdapterReply(ok, room) ==
    /\ pc = "restAdapter"
    /\ netLog' = Append(netLog, "POST breakout-rooms (adapter)")
    /\ IF ok /\ IsSome(room)
       THEN /\ roomCache' = CacheSet(roomCache, room)
            /\ RestReturn(room)
       ELSE /\ pc' = "restApi"
            /\ UNCHANGED <<roomCache, restOutcome, restResult, thrown, result>>
    /\ UNCHANGED <<cfg, socketConnected, tokenState, ackOutcome, inbound, replies,
                   pollAttempt>>
    /\ UNCHANGED <<hookVars, opResult, listeners>>

\* a test for the status number only
NumberOnlyMatchesNotFound(err) == err = "HTTP 404: Not Found"

\* /404|Not Found/i.test(res.error) on a string error
MatchesNotFound(err) == err \in {"HTTP 404: Not Found", "Not Found"}

\* the API service answers the flat payload: success ends the call, a Not Found
\* failure leads to the legacy endpoint, any other failure is thrown
ApiReply(ok, room, err) ==
    /\ pc = "restApi"
    /\ netLog' = Append(netLog, "POST breakout-rooms (api service)")
    /\ replies' = [replies EXCEPT !.api = IF ok THEN "ok" ELSE err]
    /\ IF ok
       THEN /\ roomCache' = CacheSet(roomCache, room)
            /\ RestReturn(room)
       ELSE /\ roomCache' = roomCache
            /\ IF MatchesNotFound(err)
               THEN /\ pc' = "restLegacy"
                    /\ UNCHANGED <<restOutcome, restResult, thrown, result>>
               ELSE RestThrow(IF err # "" THEN err
                              ELSE "API returned failure creating room")
    /\ UNCHANGED <<cfg, socketConnected, tokenState, ackOutcome, inbound, pollAttempt>>
    /\ UNCHANGED <<hookVars, opResult, listeners>>

LegacyStatuses == {"HTTP 404: Not Found", "HTTP 500: Internal Server Error"}

\* the legacy endpoint answers: success ends the call, an HTTP error starts the
\* poll for the room by name, a failed fetch is thrown
LegacyReply(outcome, room, status) ==
    /\ pc = "restLegacy"
    /\ netLog' = Append(netLog, "POST breakout-rooms (legacy)")
    /\ CASE outcome = "ok" ->
              /\ replies' = [replies EXCEPT !.legacy = "ok"]
              /\ roomCache' = CacheSet(roomCache, room)
              /\ pollAttempt' = pollAttempt
              /\ RestReturn(room)
         [] outcome = "error" ->
              /\ replies' = [replies EXCEPT !.legacy = status]
              /\ pollAttempt' = 0
              /\ pc' = "restPoll"
              /\ UNCHANGED <<roomCache, restOutcome, restResult, thrown, result>>
         [] OTHER ->
              /\ replies' = [replies EXCEPT !.legacy = "Failed to fetch"]
              /\ RestThrow("Failed to fetch")
              /\ UNCHANGED <<roomCache, pollAttempt>>
    /\ UNCHANGED <<cfg, socketConnected, tokenState, ackOutcome, inbound>>
    /\ UNCHANGED <<hookVars, opResult, listeners>>

\* a poll that never recognises the room it waits for
NeverFindByName(list, name) == None

\* resp.rooms.find(r => r.name === name)
FindByName(list, name) ==
    IF \E r \in list : r.name = name
    THEN Some(CHOOSE r \in list : r.name = name)
    ELSE None

\* rooms.forEach(room => this.roomCache.set(room.id, room))
CacheAll(cache, list) ==
    [id \in RoomIds |-> IF \E r \in list : r.id = id
                        THEN Some(CHOOSE r \in list : r.id = id)
                        ELSE cache[id]]

\* one attempt of pollForRoomByName: a list query, a match ends the call
PollReply(ok, list) ==
    /\ pc = "restPoll"
    /\ pollAttempt < PollAttempts
    /\ netLog' = Append(netLog, "GET breakout-rooms")
    /\ IF ok /\ IsSome(FindByName(list, cfg.name))
       THEN /\ roomCache' = CacheSet(CacheAll(roomCache, list), FindByName(list, cfg.name))
            /\ pollAttempt' = pollAttempt
            /\ RestReturn(FindByName(list, cfg.name))
       ELSE /\ roomCache' = IF ok THEN CacheAll(roomCache, list) ELSE roomCache
            /\ pollAttempt' = pollAttempt + 1
            /\ UNCHANGED <<pc, restOutcome, restResult, thrown, result>>
    /\ UNCHANGED <<cfg, socketConnected, tokenState, ackOutcome, inbound, replies>>
    /\ UNCHANGED <<hookVars, opResult, listeners>>

\* every attempt was spent: the legacy endpoint's error is thrown
PollExhausted ==
    /\ pc = "restPoll"
    /\ pollAttempt = PollAttempts
    /\ RestThrow(replies.legacy)
    /\ UNCHANGED <<cfg, socketConnected, tokenState, ackOutcome, inbound, netLog, roomCache,
                   replies, pollAttempt>>
    /\ UNCHANGED <<hookVars, opResult, listeners>>

\* what a catch block of the service makes of a thrown error: it is raised again
RethrowCatchOutcome(msg) == [pc |-> "raised", result |-> result]

\* what a catch block of the service makes of a thrown error: an error result
CatchOutcome(msg) == [pc |-> "done", result |-> Failure(msg)]

\* createBreakoutRoom's catch block: debug analysis, then the error result
Catch ==
    /\ pc = "catch"
    /\ netLog' = netLog \o DebugAnalysisCalls
    /\ result' = CatchOutcome(thrown).result
    /\ pc' = CatchOutcome(thrown).pc
    /\ UNCHANGED <<cfg, socketConnected, tokenState, ackOutcome, inbound, roomCache, thrown,
                   restOutcome, restResult, replies, pollAttempt>>
    /\ UNCHANGED <<hookVars, opResult, listeners>>

\* the result of one of the other public operations
OpResult(op, res) ==
    [op |-> op, success |-> res.result.success, error |-> res.result.error,
     raised |-> res.pc = "raised"]

HttpReplies == {"ok", "HTTP 403: Forbidden", "HTTP 500: Internal Server Error", "Failed to fetch"}

\* a REST operation of the service: the token is read, the request is made, a
\* response that is not ok or a failed fetch is thrown, and the catch block
\* turns whatever was thrown into an error result
RestOpResult(op, hasToken, reply) ==
    IF ~hasToken THEN OpResult(op, CatchOutcome("No authentication token available"))
    ELSE IF reply = "ok" THEN OpResult(op, [pc |-> "done", result |-> Success(None)])
    ELSE OpResult(op, CatchOutcome(reply))

OtherOpFrame ==
    /\ UNCHANGED <<pc, cfg, socketConnected, tokenState, ackOutcome, inbound, netLog, thrown,
                   restOutcome, restResult, replies, pollAttempt, result>>
    /\ UNCHANGED <<hookVars, listeners>>

\* joinBreakoutRoom: an emit when the socket is connected, else joinRoomViaAPI
JoinBreakoutRoom(conn, hasToken, reply, room) ==
    /\ pc = "idle"
    /\ IF conn
       THEN /\ opResult' = OpResult("joinBreakoutRoom", [pc |-> "done", result |-> Success(None)])
            /\ roomCache' = roomCache
       ELSE /\ opResult' = RestOpResult("joinBreakoutRoom", hasToken, reply)
            /\ roomCache' = IF hasToken /\ reply = "ok" THEN CacheSet(roomCache, room)
                            ELSE roomCache
    /\ OtherOpFrame

\* getBreakoutRooms: the token must be present and valid; the rooms are cached
GetBreakoutRooms(tok, reply, list) ==
    /\ pc = "idle"
    /\ IF tok # "valid"
       THEN /\ opResult' = OpResult("getBreakoutRooms",
                                    CatchOutcome("No valid authentication token available"))
            /\ roomCache' = roomCache
       ELSE /\ opResult' = RestOpResult("getBreakoutRooms", TRUE, reply)
            /\ roomCache' = IF reply = "ok" THEN CacheAll(roomCache, list) ELSE roomCache
    /\ OtherOpFrame

\* a leave or delete that drops the room from the cache before the answer is known
EagerLeaveOrDeleteBreakoutRoom(op, hasToken, reply, roomId) ==
    /\ pc = "idle"
    /\ opResult' = RestOpResult(op, hasToken, reply)
    /\ roomCache' = [roomCache EXCEPT ![roomId] = None]
    /\ OtherOpFrame

\* leaveBreakoutRoom and deleteBreakoutRoom: on success the room leaves the cache
LeaveOrDeleteBreakoutRoom(op, hasToken, reply, roomId) ==
    /\ pc = "idle"
    /\ opResult' = RestOpResult(op, hasToken, reply)
    /\ roomCache' = IF hasToken /\ reply = "ok" THEN [roomCache EXCEPT ![roomId] = None]
                    ELSE roomCache
    /\ OtherOpFrame

\* autoAssignParticipants: the response's counts are returned, nothing is cached
AutoAssignParticipants(hasToken, reply) ==
    /\ pc = "idle"
    /\ opResult' = RestOpResult("autoAssignParticipants", hasToken, reply)
    /\ roomCache' = roomCache
    /\ OtherOpFrame

NextService ==
    \/ \E c \in RoomConfigs, conn \in BOOLEAN, tok \in {"valid", "missing", "invalid"} :
           CreateCall(c, conn, tok)
    \/ DebugFetch
    \/ \E valid \in BOOLEAN : PermissionCheck(valid)
    \/ \E sess \in SessionIds, room \in InboundRooms : DeliverCreated(sess, room)
    \/ DeliverCreateError
    \/ \E mode \in OffModes : AckTimeout(mode)
    \/ RestStart
    \/ \E ok \in BOOLEAN, room \in InboundRooms : AdapterReply(ok, room)
    \/ \E ok \in BOOLEAN, room \in InboundRooms, err \in ErrorTexts : ApiReply(ok, room, err)
    \/ \E outcome \in {"ok", "error", "failed"}, room \in InboundRooms,
          status \in LegacyStatuses : LegacyReply(outcome, room, status)
    \/ \E ok \in BOOLEAN, list \in SUBSET ServerRooms : PollReply(ok, list)
    \/ PollExhausted
    \/ Catch
    \/ \E conn \in BOOLEAN, hasToken \in BOOLEAN, reply \in HttpReplies, room \in InboundRooms :
           JoinBreakoutRoom(conn, hasToken, reply, room)
    \/ \E tok \in {"valid", "missing", "invalid"}, reply \in HttpReplies,
          list \in SUBSET ServerRooms : GetBreakoutRooms(tok, reply, list)
    \/ \E op \in {"leaveBreakoutRoom", "deleteBreakoutRoom"}, hasToken \in BOOLEAN,
          reply \in HttpReplies, roomId \in RoomIds :
           LeaveOrDeleteBreakoutRoom(op, hasToken, reply, roomId)
    \/ \E hasToken \in BOOLEAN, reply \in HttpReplies : AutoAssignParticipants(hasToken, reply)

InitSvc == InitHook /\ InitReplay /\ InitService

SpecService == InitSvc /\ [][NextService]_vars

\* the configurations of the call in the create specification
CreateConfigs == [name : RoomNames, maxParticipants : {MinParticipants - 1, MinParticipants}]

\* one createBreakoutRoom call on a service that has made no other call
NextCreate ==
    \/ \E c \in CreateConfigs, conn \in BOOLEAN, tok \in {"valid", "missing", "invalid"} :
           CreateCall(c, conn, tok)
    \/ DebugFetch
    \/ \E valid \in BOOLEAN : PermissionCheck(valid)
    \/ \E sess \in SessionIds, room \in InboundRooms : DeliverCreated(sess, room)
    \/ DeliverCreateError
    \/ \E mode \in OffModes : AckTimeout(mode)
    \/ RestStart
    \/ \E ok \in BOOLEAN, room \in InboundRooms : AdapterReply(ok, room)
    \/ \E ok \in BOOLEAN, room \in InboundRooms, err \in ErrorTexts : ApiReply(ok, room, err)
    \/ \E outcome \in {"ok", "error", "failed"}, room \in InboundRooms,
          status \in LegacyStatuses : LegacyReply(outcome, room, status)
    \/ \E ok \in BOOLEAN, list \in SUBSET ServerRooms : PollReply(ok, list)
    \/ PollExhausted
    \/ Catch

\* every HTTP call returns, every awaited timer fires and every continuation
\* runs: a step of the call that can be taken is eventually taken
SpecCreateLive == InitSvc /\ [][NextCreate]_vars /\ WF_vars(NextCreate)

----------------------------------------------------------------------------
(* Claims about the reducer and its dedup memory *)

LastEntry == log[Len(log)]
IsFolded(entry) == entry.op = "processEvent" /\ ~entry.dropped

\* C1 (as amended): a processEvent call whose dedup key is still held in the dedup
\* memory changes nothing: rooms, participants, currentRoom, lastUpdate, the dedup
\* memory and the events-received counter are as they were.
C1_HeldKeyChangesNothing ==
    [][ ( /\ Len(log') = Len(log) + 1
          /\ log'[Len(log')].op = "processEvent"
          /\ EventKey(log'[Len(log')].event) \in Range(eventHandlers) )
        => UNCHANGED reducerVars ]_vars

\* C1 witness: an event delivered a second time was dropped.
C1_Witness ==
    /\ Len(log) > CapStart
    /\ LastEntry.dropped
    /\ LastEntry.event = CapEvent(CapStart)
    /\ Len(eventHandlers) < CapStart

\* C1 (as claimed): in any sequence of events each dedup key is folded at most once,
\* that is, no folded event has the key of an event folded earlier.
C1_KeyFoldedAtMostOnce ==
    (Len(log) > 0 /\ IsFolded(LastEntry)) =>
        \A i \in 1..(Len(log) - 1) :
            IsFolded(log[i]) => EventKey(log[i].event) # EventKey(LastEntry.event)

\* C2: after a sequence of room_created / room_updated events, the entry of every
\* room id is the payload of the last event for that id that was not dropped, in
\* arrival order, whatever the timestamps.
OnlyRoomEvents ==
    \A i \in 1..Len(log) :
        /\ log[i].op = "processEvent"
        /\ log[i].event.type \in {"room_created", "room_updated"}
        /\ IsSome(log[i].event.data.room)

AppliedFor(r) ==
    {i \in 1..Len(log) : ~log[i].dropped /\ Get(log[i].event.data.room).id = r}

LastAppliedRoom(r) ==
    IF AppliedFor(r) = {} THEN None
    ELSE LET i == CHOOSE k \in AppliedFor(r) : \A j \in AppliedFor(r) : j <= k
         IN log[i].event.data.room

C2_LastAppliedWins ==
    OnlyRoomEvents => \A r \in RoomIds : rooms[r] = LastAppliedRoom(r)

\* C2 witness: a duplicate was dropped, and an event with an older timestamp that
\* arrived later overwrote the room.
C2_Witness ==
    /\ OnlyRoomEvents
    /\ Len(log) = 3
    /\ log[2].dropped
    /\ ~log[3].dropped
    /\ log[3].event.timestamp < log[1].event.timestamp
    /\ log[3].event.data.room # log[1].event.data.room
    /\ rooms["r1"] = log[3].event.data.room

\* C3: a participant_left event that is not dropped and names a participant and a
\* room leaves the room's occupancy at max(0, prior - 1), the participant out of
\* that room's roster and out of the participants map.
C3_ParticipantLeft ==
    [][ ( /\ Len(log') = Len(log) + 1
          /\ IsFolded(log'[Len(log')])
          /\ log'[Len(log')].event.type = "participant_left"
          /\ log'[Len(log')].event.participantId # Absent
          /\ log'[Len(log')].event.roomId # Absent )
        => LET e == log'[Len(log')].event IN
           /\ participants'[e.participantId] = None
           /\ IsSome(rooms[e.roomId]) =>
                /\ IsSome(rooms'[e.roomId])
                /\ Get(rooms'[e.roomId]).currentParticipants =
                       Max2(0, Get(rooms[e.roomId]).currentParticipants - 1)
                /\ e.participantId \notin Range(Get(rooms'[e.roomId]).participants) ]_vars

\* C3 witness: the participant left a room whose occupancy was already 0.
C3_Witness ==
    /\ Len(log) = 2
    /\ log[1].event = RoomEvt("room_created", RoomA, 1)
    /\ IsFolded(log[2])
    /\ log[2].event = LeftEvt("p1", "r1", 2)
    /\ Get(rooms["r1"]).currentParticipants = 0

\* C3 second witness case, occupancy above 0 and the participant on the roster
C3_WitnessDecrement ==
    /\ Len(log) = 2
    /\ log[1].event = RoomEvt("room_created", RoomB, 1)
    /\ IsFolded(log[2])
    /\ log[2].event = LeftEvt("p1", "r1", 2)
    /\ Get(rooms["r1"]).currentParticipants = 1
    /\ Get(rooms["r1"]).participants = <<"p2">>

\* C8: the dedup memory never holds more than DedupCap keys; the insertion that
\* brings it above DedupCap evicts exactly the EvictCount oldest keys and keeps the
\* newest ones in insertion order (DedupCap + 1 distinct keys leave the newest
\* DedupCap + 1 - EvictCount).
C8_DedupCap ==
    /\ [](Len(eventHandlers) <= DedupCap)
    /\ []( (Len(log) = DedupCap + 1 /\ FreshTimestamp = DedupCap + 2) =>
             eventHandlers =
                 [i \in 1..(DedupCap + 1 - EvictCount) |-> EventKey(CapEvent(EvictCount + i))] )
    /\ [][ (Len(log') = Len(log) + 1 /\ IsFolded(log'[Len(log')])) =>
             LET added == Append(eventHandlers, EventKey(log'[Len(log')].event)) IN
             IF Len(added) > DedupCap
             THEN eventHandlers' = [i \in 1..(Len(added) - EvictCount) |-> added[i + EvictCount]]
             ELSE eventHandlers' = added ]_vars

\* C8 witness: DedupCap + 1 distinct keys were inserted and the newest
\* DedupCap + 1 - EvictCount are held.
C8_Witness ==
    /\ Len(log) = DedupCap + 1
    /\ FreshTimestamp = DedupCap + 2
    /\ Len(eventHandlers) = DedupCap + 1 - EvictCount
    /\ eventHandlers[1] = EventKey(CapEvent(EvictCount + 1))
    /\ eventHandlers[Len(eventHandlers)] = EventKey(CapEvent(DedupCap + 1))

\* C9: after a sequence S of events, clearCache followed by the replay of S yields
\* the projection (rooms, participants, currentRoom, lastUpdate) the first run of S
\* had produced, and the replay drops exactly the events the first run dropped (none
\* is dropped as a duplicate of the first run).
ReplayDone == phase = "replay" /\ replayIdx > RunLength

C9_ClearCacheReplay ==
    ReplayDone =>
        /\ CurrentProjection = snapshot
        /\ \A i \in 1..RunLength : log[RunLength + 1 + i].dropped = log[i].dropped

\* C9 witness: a replayed sequence of MaxEvents events, one of them a duplicate,
\* that rebuilt a non-empty projection.
C9_Witness ==
    /\ ReplayDone
    /\ RunLength = MaxEvents
    /\ \E i \in 1..RunLength : log[i].dropped
    /\ \E i \in 1..RunLength : ~log[i].dropped
    /\ rooms # EmptyRooms
    /\ participants # EmptyParticipants

----------------------------------------------------------------------------
(* Claims about the hook's operations *)

TransportOps ==
    {"createRoom", "joinRoom", "leaveRoom", "sendMessage", "updateRoom", "deleteRoom",
     "updateParticipant", "moderateParticipant", "sendReaction"}

\* C10: every hook operation that needs a connected transport, when called while
\* the connection status is not 'connected', raises 'Socket not connected' and emits
\* nothing on the transport.
C10_NotConnectedRaises ==
    (last.op \in TransportOps /\ last.statusAtCall # "connected") =>
        (last.error = "Socket not connected" /\ last.emitted = "none")

\* C10 for the four guarded operations alone: also violated, because their guard
\* reads the status captured when they were memoised
C10_GuardedNotConnectedRaises ==
    (last.op \in {"createRoom", "joinRoom", "leaveRoom", "sendMessage"}
        /\ last.statusAtCall # "connected") =>
        (last.error = "Socket not connected" /\ last.emitted = "none")

----------------------------------------------------------------------------
(* Claims about the service's createBreakoutRoom *)

ValidationMessages == {"Room name is required", "Max participants must be between 2 and 20"}

\* the configurations that must be rejected: a name that is empty or made of
\* whitespace only, or maxParticipants below 2 or above 20
RejectedConfig(c) ==
    \/ \A i \in 1..Len(c.name) : c.name[i] = " "
    \/ c.maxParticipants < 2
    \/ c.maxParticipants > 20

RestRequests ==
    {"POST breakout-rooms (adapter)", "POST breakout-rooms (api service)",
     "POST breakout-rooms (legacy)", "GET breakout-rooms"}

\* C5: while the wait for the acknowledgment is pending, a breakout_room_created
\* event of the call's session that carries a room of the call's name ends the
\* call with success and that room, and createRoomViaAPI is never entered nor
\* any REST request made; a breakout_room_created event of another session or
\* with another room name leaves the wait pending.
C5_MatchingEventResolves ==
    /\ [][(/\ pc = "waiting"
           /\ inbound'.seq = inbound.seq + 1
           /\ inbound'.kind = "breakout_room_created")
          => IF /\ inbound'.sessionId = SessionId
                /\ IsSome(inbound'.room)
                /\ Get(inbound'.room).name = cfg.name
             THEN /\ pc' = "done"
                  /\ result' = [success |-> TRUE, room |-> inbound'.room, error |-> "none"]
             ELSE /\ pc' = "waiting"
                  /\ result' = result]_vars
    /\ [](ackOutcome = "created" =>
            /\ pc = "done"
            /\ restOutcome = "none"
            /\ Range(netLog) \cap RestRequests = {})

C5_Witness ==
    /\ pc = "done"
    /\ ackOutcome = "created"
    /\ cfg.name = <<"A">>
    /\ inbound.seq = MaxInbound
    /\ roomCache["r2"] = Some(SvcRoom("r2", <<"B">>))
    /\ result = [success |-> TRUE, room |-> Some(SvcRoom("r1", <<"A">>)), error |-> "none"]

\* C6: when the 8 second timer fires, or a breakout_room_create_error event
\* arrives, while the wait is pending, the call does not end there: it enters
\* createRoomViaAPI, and what the caller gets is what createRoomViaAPI returned
\* or, as an error result, what it threw.
C6_AckFailureFallsBackToRest ==
    /\ [][pc = "waiting" /\ ackOutcome' \in {"timeout", "error"}
          => pc' = "rest" /\ result' = result]_vars
    /\ [](ackOutcome \in {"timeout", "error"} /\ pc # "rest" => restOutcome # "none")
    /\ [](ackOutcome \in {"timeout", "error"} /\ pc = "done" =>
            /\ restOutcome \in {"returned", "threw"}
            /\ result = restResult)

C6_Witness ==
    /\ pc = "done"
    /\ ackOutcome = "timeout"
    /\ restOutcome = "returned"
    /\ result.success
    /\ "emit create_breakout_room" \in Range(netLog)

\* C7: when the create request whose failure createRoomViaAPI inspects (the
\* API service's) fails with a 404 / Not Found error, the legacy endpoint is
\* requested before any error reaches the caller; when it fails with any other
\* error, createRoomViaAPI throws without a legacy request and without a list
\* query, and the caller gets an error result.
C7_NotFoundTriesLegacy ==
    /\ [](replies.api \in NotFoundTexts =>
            \/ pc = "restLegacy"
            \/ "POST breakout-rooms (legacy)" \in Range(netLog))
    /\ [](replies.api \in ErrorTexts \ NotFoundTexts =>
            /\ pc \in {"catch", "done"}
            /\ restOutcome = "threw"
            /\ "POST breakout-rooms (legacy)" \notin Range(netLog)
            /\ "GET breakout-rooms" \notin Range(netLog)
            /\ pc = "done" => ~result.success)

C7_Witness ==
    /\ pc = "done"
    /\ replies.api = "Not Found"
    /\ ~result.success
    /\ "POST breakout-rooms (legacy)" \in Range(netLog)
    /\ pollAttempt = PollAttempts

----------------------------------------------------------------------------
(* Claims about the hook's connection management *)

\* C11: the connection status becomes 'connected' only from 'connecting' and
\* becomes 'error' only from 'connecting', whatever the interleaving of connect,
\* disconnect and reconnect calls with the transport's connect outcomes.
C11_StatusMachine ==
    [][/\ (connectionStatus' = "connected" /\ connectionStatus # "connected")
            => connectionStatus = "connecting"
       /\ (connectionStatus' = "error" /\ connectionStatus # "error")
            => connectionStatus = "connecting"]_vars

\* C12: after disconnect(), called in whatever status, the status is
\* 'disconnected', and the call emitted 'leave_breakout_session' before it
\* tore the transport down; the disconnect that starts a reconnect() likewise.
C12_DisconnectAlways ==
    (last.op = "disconnect" \/ (last.op = "reconnect" /\ last.emitted # "none")) =>
        /\ connectionStatus = "disconnected"
        /\ last.emitted = "leave_breakout_session"
        /\ \E i, j \in 1..Len(last.calls) :
               /\ i < j
               /\ last.calls[i] = "leave_breakout_session"
               /\ last.calls[j] = "disconnect"

C12_Witness ==
    /\ last.op = "disconnect"
    /\ last.statusAtCall = "error"
    /\ connectionStatus = "disconnected"

----------------------------------------------------------------------------
(* Claims about the service's error results *)

ListQueries == {i \in 1..Len(netLog) : netLog[i] = "GET breakout-rooms"}

\* C13: no public operation of the service raises: a failed operation ends in
\* one result with success false and a message, which does not change
\* afterwards.  A failed create is a validation error, a permission denial, or
\* an error thrown by createRoomViaAPI; in the last case, with a usable token,
\* the backend adapter and the API service were both requested, the legacy
\* endpoint was requested if the API service answered 404 / Not Found, and all
\* six list queries were made if the legacy endpoint answered with an HTTP error.
C13_NeverRaises ==
    /\ [](pc # "raised" /\ ~opResult.raised)
    /\ [](pc = "done" /\ ~result.success => result.error \notin {"none", ""})
    /\ [](opResult.op # "none" /\ ~opResult.success => opResult.error \notin {"none", ""})
    /\ [][pc = "done" => pc' = "done" /\ result' = result]_vars
    /\ [](pc = "done" /\ ~result.success =>
            \/ result.error \in ValidationMessages /\ netLog = <<>>
            \/ /\ result.error = "Insufficient permissions to create breakout rooms"
               /\ restOutcome = "none" /\ ackOutcome = "none"
            \/ /\ restOutcome = "threw"
               /\ result = restResult
               /\ tokenState = "valid" =>
                    /\ "POST breakout-rooms (adapter)" \in Range(netLog)
                    /\ "POST breakout-rooms (api service)" \in Range(netLog)
                    /\ replies.api \in NotFoundTexts =>
                           "POST breakout-rooms (legacy)" \in Range(netLog)
                    /\ replies.legacy \in LegacyStatuses =>
                           Cardinality(ListQueries) = PollAttempts)

C13_Witness ==
    /\ pc = "done"
    /\ ~result.success
    /\ ackOutcome = "timeout"
    /\ replies.legacy = "HTTP 500: Internal Server Error"
    /\ Cardinality(ListQueries) = PollAttempts
    /\ result.error = "HTTP 500: Internal Server Error"

----------------------------------------------------------------------------
(* Claims about the hook's room operations *)

\* C14: a joinRoom(roomId) called while the connection status is 'connected'
\* raises nothing, makes exactly one call on the transport, the
\* join_breakout_room emit, and has set currentRoom to roomId when it returns.
C14_JoinWhileConnected ==
    (last.op = "joinRoom" /\ last.statusAtCall = "connected") =>
        /\ last.error = "none"
        /\ last.calls = <<"join_breakout_room">>
        /\ currentRoom = last.roomId

C16_NoRollback ==
    /\ [][currentRoom' # currentRoom =>
            \/ /\ log' = log
               /\ last'.op = "joinRoom" /\ last'.error = "none"
               /\ currentRoom' = last'.roomId
            \/ /\ log' = log
               /\ last'.op = "leaveRoom" /\ last'.error = "none"
               /\ last'.roomId = currentRoom
               /\ currentRoom' = Absent
            \/ /\ Len(log') = Len(log) + 1
               /\ log'[Len(log')].op = "processEvent"
               /\ ~log'[Len(log')].dropped
               /\ log'[Len(log')].event.type = "room_deleted"
               /\ log'[Len(log')].event.roomId = currentRoom
               /\ currentRoom' = Absent]_vars
    /\ [][(Len(log') = Len(log) + 1 /\ log'[Len(log')].op = "breakout_room_join_error")
            => /\ currentRoom' = currentRoom
               /\ rooms' = rooms
               /\ participants' = participants]_vars
    /\ [][connectionStatus' # connectionStatus => currentRoom' = currentRoom]_vars

C16_Witness ==
    /\ currentRoom = "r1"
    /\ last.op = "joinRoom" /\ last.error = "none" /\ last.roomId = "r1"
    /\ metrics.eventsSent = 2
    /\ log # <<>>
    /\ LastEntry.op = "breakout_room_join_error"
    /\ LastEntry.event.roomId = "r1"

----------------------------------------------------------------------------
(* Claims about single event kinds of the reducer *)

\* the step processes an event of one of the given types and folds it
FoldsEventOf(types) ==
    /\ Len(log') = Len(log) + 1
    /\ log'[Len(log')].op = "processEvent"
    /\ ~log'[Len(log')].dropped
    /\ log'[Len(log')].event.type \in types

FoldedEvent == log'[Len(log')].event

\* C17: folding a room_deleted event with roomId r removes r from the rooms map
\* and leaves every other room entry and the participants map as they were;
\* currentRoom becomes null if it was r and is unchanged otherwise.
C17_RoomDeleted ==
    [][(FoldsEventOf({"room_deleted"}) /\ FoldedEvent.roomId # Absent) =>
          /\ rooms'[FoldedEvent.roomId] = None
          /\ \A r \in RoomIds \ {FoldedEvent.roomId} : rooms'[r] = rooms[r]
          /\ participants' = participants
          /\ currentRoom = FoldedEvent.roomId => currentRoom' = Absent
          /\ currentRoom # FoldedEvent.roomId => currentRoom' = currentRoom]_vars

C17_Witness ==
    /\ log # <<>>
    /\ LastEntry.op = "processEvent" /\ ~LastEntry.dropped
    /\ LastEntry.event.type = "room_deleted"
    /\ LastEntry.event.roomId = "r2"
    /\ Len(log) = 2
    /\ log[1] = LogEntry("processEvent", RoomEvt("room_updated", RoomC, 2), FALSE)
    /\ rooms["r2"] = None
    /\ currentRoom = "r1"

\* the step processes an event without raising and folds it
FoldsWithoutError(types) == FoldsEventOf(types) /\ ~log'[Len(log')].threw

\* C18: folding a participant_joined / participant_updated event that carries
\* a participant and names a room held in the projection stores the participant
\* under its id, sets the room's occupancy to the supplied count whenever a
\* count is supplied (0 included) and the room's roster to the supplied roster
\* whenever one is supplied (the empty one included); a value not supplied
\* leaves the room's field as it was.
C18_ServerValuesWin ==
    [][(/\ FoldsWithoutError({"participant_joined", "participant_updated"})
        /\ IsSome(FoldedEvent.data.participant)
        /\ FoldedEvent.roomId # Absent
        /\ IsSome(rooms[FoldedEvent.roomId]))
       => LET e == FoldedEvent
              before == Get(rooms[e.roomId])
              after == Get(rooms'[e.roomId])
          IN /\ participants'[Get(e.data.participant).id] = e.data.participant
             /\ IsSome(rooms'[e.roomId])
             /\ after.currentParticipants =
                    IF IsSome(e.data.participantCount) THEN Get(e.data.participantCount)
                    ELSE before.currentParticipants
             /\ after.participants =
                    IF IsSome(e.data.participants) THEN Get(e.data.participants)
                    ELSE before.participants]_vars

\* C19: folding a room_status_changed event that names room r and carries a
\* status sets the status of r, if r is held, and nothing else: the other
\* fields of r, the other rooms, the participants map and currentRoom are as
\* they were, and no entry is created for a room that is not held.
C19_StatusOnly ==
    [][FoldsWithoutError({"room_status_changed"}) =>
          LET e == FoldedEvent IN
          /\ participants' = participants
          /\ currentRoom' = currentRoom
          /\ \A r \in RoomIds :
                IF r = e.roomId /\ IsSome(rooms[r]) /\ IsSome(e.data.status)
                THEN rooms'[r] = Some([Get(rooms[r]) EXCEPT !.status = Get(e.data.status)])
                ELSE rooms'[r] = rooms[r]]_vars

C19_Witness ==
    /\ Len(log) = 3
    /\ log[1] = LogEntry("processEvent", RoomEvt("room_created", RoomB, 1), FALSE)
    /\ log[2].event.type = "room_status_changed" /\ log[2].event.roomId = "r2"
    /\ ~log[2].dropped
    /\ log[3].event.type = "room_status_changed" /\ log[3].event.roomId = "r1"
    /\ ~log[3].dropped
    /\ rooms["r1"] = Some([RoomB EXCEPT !.status = "paused"])
    /\ rooms["r2"] = None

\* the events that lack the identifier their kind requires, or have no data
Malformed(e) ==
    \/ ~e.data.present
    \/ e.type \in {"room_created", "room_updated"} /\ e.data.room = None
    \/ e.type \in {"room_deleted", "room_status_changed"} /\ e.roomId = Absent
    \/ /\ e.type \in {"participant_joined", "participant_updated"}
       /\ (e.data.participant = None \/ e.roomId = Absent)
    \/ e.type = "participant_left" /\ (e.participantId = Absent \/ e.roomId = Absent)

\* C20: processing a malformed event raises nothing and leaves the rooms map,
\* the participants map and currentRoom as they were.
C20_MalformedDropped ==
    [][(/\ Len(log') = Len(log) + 1
        /\ log'[Len(log')].op = "processEvent"
        /\ Malformed(log'[Len(log')].event))
       => /\ ~log'[Len(log')].threw
          /\ rooms' = rooms
          /\ participants' = participants
          /\ currentRoom' = currentRoom]_vars

----------------------------------------------------------------------------
(* Claims about rooms' occupancy and rosters *)

\* C21: every room held in the projection has an occupancy
\* (currentParticipants) that does not exceed its capacity (maxParticipants).
C21_OccupancyWithinCapacity ==
    \A r \in RoomIds :
        IsSome(rooms[r]) =>
            Get(rooms[r]).currentParticipants <= Get(rooms[r]).maxParticipants

\* C22: after a participant_left event naming participant p is folded, p is in
\* the roster of no room of the projection.
C22_LeftFromEveryRoster ==
    [][(FoldsWithoutError({"participant_left"}) /\ FoldedEvent.participantId # Absent)
       => \A r \in RoomIds :
             IsSome(rooms'[r]) =>
                 FoldedEvent.participantId \notin Range(Get(rooms'[r]).participants)]_vars

\* C23: folding an auto_assignment_completed event stores, for each assignment
\* that carries a participant, that participant under its id (the last
\* assignment naming an id wins), whether or not the assignment's room is
\* held, and leaves every room's roster and occupancy as they were.
C23_AutoAssignmentUpserts ==
    [][(FoldsWithoutError({"auto_assignment_completed"})
        /\ IsSome(FoldedEvent.data.assignments))
       => LET as == Get(FoldedEvent.data.assignments) IN
          /\ \A i \in 1..Len(as) :
                (/\ IsSome(as[i].participant)
                 /\ \A j \in (i+1)..Len(as) :
                       IsSome(as[j].participant) =>
                           Get(as[j].participant).id # Get(as[i].participant).id)
                => participants'[Get(as[i].participant).id] = as[i].participant
          /\ \A r \in RoomIds :
                /\ IsSome(rooms'[r]) <=> IsSome(rooms[r])
                /\ IsSome(rooms[r]) =>
                      /\ Get(rooms'[r]).participants = Get(rooms[r]).participants
                      /\ Get(rooms'[r]).currentParticipants =
                             Get(rooms[r]).currentParticipants]_vars

----------------------------------------------------------------------------
(* Claims about the poll that follows a failed legacy create *)

\* C24: the poll makes at most PollAttempts list queries.  A list query ends
\* the call with success, returning and caching a room of the requested name,
\* or leaves the poll running, and then no room of that name was in its answer.
\* The poll is left for the error path only after PollAttempts queries, and
\* the call then ends with an error.  Every createBreakoutRoom call that was
\* started ends.
C24_PollTerminates ==
    /\ [](Cardinality(ListQueries) <= PollAttempts)
    /\ [][(pc = "restPoll" /\ Len(netLog') = Len(netLog) + 1)
          => /\ netLog'[Len(netLog')] = "GET breakout-rooms"
             /\ \/ /\ pc' = "done"
                   /\ result'.success
                   /\ IsSome(result'.room)
                   /\ Get(result'.room).name = cfg.name
                   /\ roomCache'[Get(result'.room).id] = result'.room
                \/ /\ pc' = "restPoll"
                   /\ result' = result
                   /\ \A r \in RoomIds :
                         (roomCache'[r] # roomCache[r] /\ IsSome(roomCache'[r]))
                         => Get(roomCache'[r]).name # cfg.name]_vars
    /\ [][(pc = "restPoll" /\ pc' = "catch")
          => Cardinality(ListQueries) = PollAttempts /\ thrown' = replies.legacy]_vars
    /\ [](pc = "done" /\ restOutcome = "threw" /\ replies.legacy \in LegacyStatuses
            => ~result.success /\ Cardinality(ListQueries) = PollAttempts)
    /\ (pc # "idle") ~> (pc = "done")

C24_Witness ==
    /\ pc = "done"
    /\ replies.legacy \in LegacyStatuses
    /\ result.success
    /\ Cardinality(ListQueries) = PollAttempts
    /\ pollAttempt = PollAttempts - 1

----------------------------------------------------------------------------
(* Claims about reconnect *)

\* C25: a reconnect() call first disconnects: it emits leave_breakout_session,
\* tears the transport down and sets the status 'disconnected', and starts no
\* connect in that step.  A transport connect is started only by connect() or
\* by a reconnect() whose disconnect was done and whose pause is over, and it
\* sets the status 'connecting'.  When the connect started by a reconnect()
\* resolves with no other operation in between, the status is 'connected'.
C25_ReconnectSequential ==
    /\ [][pendingReconnects' = pendingReconnects + 1
          => /\ connectionStatus' = "disconnected"
             /\ last'.op = "reconnect"
             /\ last'.calls = DisconnectCalls
             /\ pendingConnects' = pendingConnects]_vars
    /\ [][pendingConnects' = pendingConnects + 1
          => /\ connectionStatus' = "connecting"
             /\ last'.calls = <<"connect">>
             /\ \/ last'.op = "connect" /\ pendingReconnects' = pendingReconnects
                \/ /\ last'.op = "reconnect"
                   /\ pendingReconnects > 0
                   /\ pendingReconnects' = pendingReconnects - 1]_vars
    /\ [][pendingReconnects' = pendingReconnects - 1
          => pendingConnects' = pendingConnects + 1]_vars
    /\ [][(/\ last.op = "reconnect"
           /\ last.calls = <<"connect">>
           /\ pendingConnects' = pendingConnects - 1
           /\ last'.error = "none")
          => connectionStatus' = "connected"]_vars

C25_Witness ==
    /\ last.op = "reconnect"
    /\ last.calls = <<"connect">>
    /\ connectionStatus = "connecting"
    /\ pendingConnects = 1
    /\ pendingReconnects = 0

----------------------------------------------------------------------------
(* Claims about clearCache *)

\* C26: after a clearCache call the rooms map and the participants map are
\* empty, the dedup memory is empty and currentRoom is null, whatever they
\* were before the call.
C26_ClearCacheClearsAll ==
    [][(Len(log') = Len(log) + 1 /\ log'[Len(log')].op = "clearCache")
       => /\ rooms' = EmptyRooms
          /\ participants' = EmptyParticipants
          /\ eventHandlers' = <<>>
          /\ currentRoom' = Absent]_vars

----------------------------------------------------------------------------
(* Claims about the acknowledgment wait's listeners *)

\* C27: the acknowledgment wait ends once, and when it has ended, by a matching
\* breakout_room_created event, by an error event or by its timer, the two
\* listeners it registered are removed and the service's permanent listeners
\* of breakout_room_created and breakout_room_create_error are still
\* registered; an event that arrives after the wait has ended does not change
\* the result the call returned.
C27_WaitRemovesOwnListeners ==
    /\ [][pc = "waiting" /\ pc' # "waiting" => listeners' = PermanentListeners]_vars
    /\ [](PermanentListeners \subseteq listeners)
    /\ [](pc # "waiting" => listeners \cap WaitListeners = {})
    /\ [][ackOutcome # "none" => ackOutcome' = ackOutcome]_vars
    /\ [][(pc = "done" /\ inbound'.seq = inbound.seq + 1) => result' = result]_vars

----------------------------------------------------------------------------
(* Claims about duplicate create requests *)

CreatePosts ==
    {"POST breakout-rooms (adapter)", "POST breakout-rooms (api service)",
     "POST breakout-rooms (legacy)"}

\* C28: a createBreakoutRoom call that emitted its create request over the
\* socket and whose wait ended by the timer sends no create request over REST.
C28_NoSecondCreate_Original ==
    [](("emit create_breakout_room" \in Range(netLog) /\ ackOutcome = "timeout")
          => Range(netLog) \cap CreatePosts = {})

CountIn(seq, x) == Cardinality({i \in 1..Len(seq) : seq[i] = x})

\* C28 (as amended): a createBreakoutRoom call emits at most one create
\* request over the socket and sends at most one create request to each of the
\* backend adapter, the API service and the legacy endpoint.  A call whose wait
\* ended by the timer has entered createRoomViaAPI by the time it returns and,
\* with a usable token, has sent the create request to the backend adapter, so
\* that one call can make the server create the room more than once.
C28_OneRequestPerTier ==
    /\ [](\A k \in CreatePosts \cup {"emit create_breakout_room"} : CountIn(netLog, k) <= 1)
    /\ [](ackOutcome = "timeout" =>
            /\ "emit create_breakout_room" \in Range(netLog)
            /\ pc = "done" => restOutcome # "none"
            /\ (pc = "done" /\ tokenState = "valid")
                  => "POST breakout-rooms (adapter)" \in Range(netLog))

C28_Witness ==
    /\ pc = "done"
    /\ ackOutcome = "timeout"
    /\ result.success
    /\ netLog[Len(netLog) - 1] = "emit create_breakout_room"
    /\ netLog[Len(netLog)] = "POST breakout-rooms (adapter)"

----------------------------------------------------------------------------
(* Claims about the connected-guard *)

\* C29: a createRoom, joinRoom, leaveRoom or sendMessage call made while the
\* connection status is 'connected' does not raise 'Socket not connected' and
\* emits its request.
C29_GuardReadsCurrentStatus ==
    (last.op \in {"createRoom", "joinRoom", "leaveRoom", "sendMessage"}
        /\ last.statusAtCall = "connected") =>
        (last.error # "Socket not connected" /\ last.emitted # "none")

----------------------------------------------------------------------------
(* Claims about the service's room cache *)

\* a step in which a breakout_room_created event is delivered
EventCaches ==
    /\ inbound'.seq = inbound.seq + 1
    /\ roomCache' = CacheSet(roomCache, inbound'.room)

\* a step of joinBreakoutRoom, getBreakoutRooms, leaveBreakoutRoom or
\* deleteBreakoutRoom that succeeded and changed the cache as that operation does
OtherOpCaches ==
    /\ pc = "idle" /\ pc' = "idle"
    /\ opResult'.success
    /\ \/ /\ opResult'.op = "joinBreakoutRoom"
          /\ \E room \in InboundRooms : roomCache' = CacheSet(roomCache, room)
       \/ /\ opResult'.op \in {"leaveBreakoutRoom", "deleteBreakoutRoom"}
          /\ \E r \in RoomIds : roomCache' = [roomCache EXCEPT ![r] = None]
       \/ /\ opResult'.op = "getBreakoutRooms"
          /\ \E list \in SUBSET ServerRooms : roomCache' = CacheAll(roomCache, list)

\* the step of createRoomViaAPI that returns a room and stores it
CreateCaches ==
    /\ pc \in {"restAdapter", "restApi", "restLegacy", "restPoll"}
    /\ pc' = "done"
    /\ result'.success
    /\ roomCache'[Get(result'.room).id] = result'.room

\* a list query of the poll that found no room of the requested name and
\* stored the rooms it was answered
PollCaches ==
    /\ pc = "restPoll" /\ pc' = "restPoll"
    /\ \E list \in SUBSET ServerRooms : roomCache' = CacheAll(roomCache, list)

\* C30 (as claimed): roomCache changes only when an event is delivered or in
\* the step in which a join, leave, delete or create succeeds.
C30_CacheOnlyOnSuccess_Original ==
    [][roomCache' # roomCache => (EventCaches \/ OtherOpCaches \/ CreateCaches)]_vars

\* C30 (as amended): roomCache changes only when an event is delivered, in the
\* step in which a join, list query, leave, delete or create succeeds, or in a
\* list query of the create call's poll, which stores the rooms it is answered
\* also when the create call goes on to fail.  A successful join or create
\* stores the returned room under its id; a successful leave or delete removes
\* one entry.
C30_CacheOnSuccessOrPoll ==
    [][roomCache' # roomCache =>
          (EventCaches \/ OtherOpCaches \/ CreateCaches \/ PollCaches)]_vars

C30_Witness ==
    /\ pc = "done"
    /\ ~result.success
    /\ pollAttempt = PollAttempts
    /\ inbound.seq = 0
    /\ roomCache["r2"] = Some(SvcRoom("r2", <<"B">>))
    /\ roomCache["r1"] = None
    /\ cfg.name = <<"A">>

====
